---------------------------- MODULE Spec2Model ----------------------------
(***************************************************************************)
(* Resumable export of Fireflies transcripts to a Pinecone-ready file.     *)
(*                                                                         *)
(* Two export pipelines are modelled, each as the state machine of its     *)
(* main():                                                                 *)
(*   "rest"    scripts/fireflies/export_to_pinecone.py                     *)
(*   "graphql" scripts/fireflies/export_to_pinecone_graphql.py             *)
(* together with the durable files they own (the checkpoint file and the   *)
(* output file), process crashes, interrupts and restarts.  The functions  *)
(* create_embedding (both scripts) and process_transcript (the GraphQL     *)
(* chunker) are operators, used by the runs and also called on their own   *)
(* in the specifications SpecEmbed and SpecChunk.                          *)
(***************************************************************************)
EXTENDS Integers, Sequences, FiniteSets, TLC

(***************************************************************************)
(* Bounds of the model.                                                    *)
(***************************************************************************)
\* number of transcripts the source can list
NumIds == 3
\* number of runs of the script in one behaviour
MaxRuns == 2
\* largest number of speaker blocks (chunks) of a transcript
MaxChunks == 2
\* largest --batch-size tried
MaxBatch == 3

Ids == 1..NumIds
\* args.resume_from when the option is not given
None == 0

\* the source's result set, in source order
Source == [n \in 1..NumIds |-> n]

Range(s) == {s[n] : n \in DOMAIN s}
Min(a, b) == IF a <= b THEN a ELSE b
Take(s, n) == SubSeq(s, 1, Min(n, Len(s)))

\* number of speaker blocks of transcript tid (a property of the source;
\* transcripts with 0, 1 and more blocks all occur)
TotalChunks(tid) == tid % (MaxChunks + 1)

(***************************************************************************)
(* Records.  The REST pipeline writes one record per transcript, with      *)
(* vector id fireflies_<id>; the GraphQL pipeline one per chunk, with      *)
(* vector id fireflies_<id>_<chunk_index>.  A record is modelled by the    *)
(* pair its vector id is built from.                                       *)
(***************************************************************************)
RestRecord(tid) == <<tid>>
GqlRecord(tid, idx) == <<tid, idx>>

(***************************************************************************)
(* Texts.  A Python str is the sequence of its characters.                 *)
(***************************************************************************)
\* largest number of characters a text exceeds the truncation length by
MaxOver == 2
\* number of calls for which the embedding service's behaviour is chosen
MaxCalls == 4

\* "".join / sep.join(strs)
RECURSIVE Join(_, _)
Join(sep, strs) ==
  IF strs = <<>> THEN <<>>
  ELSE IF Len(strs) = 1 THEN strs[1]
  ELSE strs[1] \o sep \o Join(sep, Tail(strs))

\* dict.get(key, default)
Get(d, key, default) == IF key \in DOMAIN d THEN d[key] ELSE default

(***************************************************************************)
(* create_embedding.  The embedding service is given by the sequence of    *)
(* the outcomes of the calls made to it: svc[n] is TRUE when the n-th call *)
(* returns an embedding, FALSE when it raises.  A call of create_embedding *)
(* yields                                                                  *)
(*   input   the text submitted to the service,                            *)
(*   ok      TRUE when an embedding is returned; FALSE when the failure is *)
(*           handed to the caller (REST: None is returned, GraphQL: the    *)
(*           exception is raised again),                                   *)
(*   calls   the number of calls made to the service,                      *)
(*   pauses  the arguments of the time.sleep calls, in order.              *)
(***************************************************************************)
\* REST create_embedding: max_retries
max_retries == 3
\* REST create_embedding: len(text) > 8000, text[:8000]
Ceiling == 8000

\* the characters of "Empty transcript"
Placeholder ==
  <<"E", "m", "p", "t", "y", " ", "t", "r", "a", "n", "s", "c", "r", "i",
    "p", "t">>

Service == [1..MaxCalls -> BOOLEAN]

\* REST, lines 160-165: the placeholder for an empty text, then the cut to
\* the first 8000 characters
RestInput(text) ==
  LET t == IF text = <<>> THEN Placeholder ELSE text
  IN IF Len(t) > Ceiling THEN SubSeq(t, 1, Ceiling) ELSE t

\* the REST retry loop pausing 2 * attempt + 1 seconds
RECURSIVE RestAttemptsLinear(_, _, _)
RestAttemptsLinear(s, attempt, pauses) ==
  IF attempt >= max_retries
  THEN [ok |-> FALSE, calls |-> attempt, pauses |-> pauses]
  ELSE IF s[attempt + 1]
  THEN [ok |-> TRUE, calls |-> attempt + 1, pauses |-> pauses]
  ELSE IF attempt < max_retries - 1
  THEN RestAttemptsLinear(s, attempt + 1, Append(pauses, 2 * attempt + 1))
  ELSE [ok |-> FALSE, calls |-> attempt + 1, pauses |-> pauses]

\* REST, lines 167-182: `for attempt in range(max_retries)` from `attempt`
\* on, `pauses` being the sleeps made so far
RECURSIVE RestAttemptsFrom(_, _, _)
RestAttemptsFrom(s, attempt, pauses) ==
  IF attempt >= max_retries
  THEN [ok |-> FALSE, calls |-> attempt, pauses |-> pauses]
  ELSE IF s[attempt + 1]
  THEN [ok |-> TRUE, calls |-> attempt + 1, pauses |-> pauses]
  ELSE IF attempt < max_retries - 1
  THEN RestAttemptsFrom(s, attempt + 1, Append(pauses, 2 ^ attempt))
  ELSE [ok |-> FALSE, calls |-> attempt + 1, pauses |-> pauses]

RestCreateEmbedding(text, s) ==
  LET a == RestAttemptsFrom(s, 0, <<>>)
  IN [input |-> RestInput(text), ok |-> a.ok, calls |-> a.calls,
      pauses |-> a.pauses]

\* the GraphQL calls with the second failure swallowed (nothing is raised)
GqlAttemptsSwallow(s) ==
  IF s[1] THEN [ok |-> TRUE, calls |-> 1, pauses |-> <<>>]
  ELSE [ok |-> TRUE, calls |-> 2, pauses |-> <<2>>]

\* GraphQL, lines 37-57: one call; on an exception time.sleep(2) and one
\* more call, whose exception is raised again
GqlAttempts(s) ==
  IF s[1] THEN [ok |-> TRUE, calls |-> 1, pauses |-> <<>>]
  ELSE IF s[2] THEN [ok |-> TRUE, calls |-> 2, pauses |-> <<2>>]
  ELSE [ok |-> FALSE, calls |-> 2, pauses |-> <<2>>]

\* GraphQL, lines 33-57: the text is submitted as given
GqlCreateEmbedding(text, s) ==
  LET a == GqlAttempts(s)
  IN [input |-> text, ok |-> a.ok, calls |-> a.calls, pauses |-> a.pauses]

\* the largest number of calls one create_embedding makes: max_retries in
\* the REST script, the call and its one retry in the GraphQL script
MaxAttempts(p) == IF p = "rest" THEN max_retries ELSE 2

\* the first pause: 2 ** 0 in the REST script, time.sleep(2) in the GraphQL
\* script
BaseDelay(p) == IF p = "rest" THEN 1 ELSE 2

\* every call a create_embedding made to the service failed
Exhausted(s, e) == \A n \in 1..e.calls : ~s[n]

\* the attempts of the script's create_embedding
Attempts(p, s) ==
  IF p = "rest" THEN RestAttemptsFrom(s, 0, <<>>) ELSE GqlAttempts(s)

(***************************************************************************)
(* process_transcript of the GraphQL script: the chunker.  A sentence and  *)
(* a transcript are dicts (functions from their keys).  The str            *)
(* f"Speaker {speaker_id}" is the pair of its prefix and the id, the str   *)
(* "None" the one-element sequence, Python's None the empty one.           *)
(***************************************************************************)
SpeakerName(speaker_id) == <<"Speaker", speaker_id>>
NoneStr == <<"None">>
Null == <<>>
Space == <<" ">>

\* lines 281-301 with the test of line 285 comparing nothing: every
\* sentence closes the block before it
RECURSIVE GroupPerSentence(_, _, _, _, _)
GroupPerSentence(sentences, n, speaker_blocks, current_speaker, current_block) ==
  IF n > Len(sentences)
  THEN IF current_block # <<>>
       THEN Append(speaker_blocks, [speaker |-> current_speaker,
                                    sentences |-> current_block])
       ELSE speaker_blocks
  ELSE LET speaker_name == SpeakerName(Get(sentences[n], "speaker_id", 0))
           close == current_block # <<>>
       IN GroupPerSentence(sentences, n + 1,
            IF close
            THEN Append(speaker_blocks, [speaker |-> current_speaker,
                                         sentences |-> current_block])
            ELSE speaker_blocks,
            speaker_name,
            Append(IF close THEN <<>> ELSE current_block, sentences[n]))

\* lines 281-301 without "Add the last block"
RECURSIVE GroupFromNoLast(_, _, _, _, _)
GroupFromNoLast(sentences, n, blocks, current_speaker, current_block) ==
  IF n > Len(sentences) THEN blocks
  ELSE LET speaker_name == SpeakerName(Get(sentences[n], "speaker_id", 0))
           close == current_speaker # speaker_name /\ current_block # <<>>
       IN GroupFromNoLast(sentences, n + 1,
            IF close
            THEN Append(blocks, [speaker |-> current_speaker,
                                 sentences |-> current_block])
            ELSE blocks,
            speaker_name,
            Append(IF close THEN <<>> ELSE current_block, sentences[n]))

\* lines 281-301: the for loop over the sentences from position n on, then
\* "Add the last block"
RECURSIVE GroupFrom(_, _, _, _, _)
GroupFrom(sentences, n, speaker_blocks, current_speaker, current_block) ==
  IF n > Len(sentences)
  THEN IF current_block # <<>>
       THEN Append(speaker_blocks, [speaker |-> current_speaker,
                                    sentences |-> current_block])
       ELSE speaker_blocks
  ELSE LET speaker_name == SpeakerName(Get(sentences[n], "speaker_id", 0))
           close == current_speaker # speaker_name /\ current_block # <<>>
       IN GroupFrom(sentences, n + 1,
            IF close
            THEN Append(speaker_blocks, [speaker |-> current_speaker,
                                         sentences |-> current_block])
            ELSE speaker_blocks,
            speaker_name,
            Append(IF close THEN <<>> ELSE current_block, sentences[n]))

\* lines 273-303
SpeakerBlocks(transcript) ==
  GroupFrom(Get(transcript, "sentences", <<>>), 1, <<>>, Null, <<>>)

\* line 312: " ".join([s.get("text", "") for s in block["sentences"]])
BlockText(block) ==
  Join(Space, [m \in 1..Len(block.sentences) |->
                 Get(block.sentences[m], "text", <<>>)])

\* lines 306-332 with prev_speaker / next_speaker left as None at the ends
ChunksOfNull(transcript, speaker_blocks) ==
  [j \in 1..Len(speaker_blocks) |->
     [text |-> BlockText(speaker_blocks[j]),
      metadata |->
        [transcript_id |-> Get(transcript, "id", <<>>),
         speaker |-> speaker_blocks[j].speaker,
         prev_speaker |-> IF j - 1 > 0 THEN speaker_blocks[j - 1].speaker
                          ELSE Null,
         next_speaker |-> IF j - 1 < Len(speaker_blocks) - 1
                          THEN speaker_blocks[j + 1].speaker
                          ELSE Null,
         chunk_index |-> j - 1,
         total_chunks |-> Len(speaker_blocks),
         source |-> "fireflies"]]]

\* lines 306-332: chunk i (0-based) is built from speaker_blocks[i], which
\* is position j = i + 1 here.  title, participants, recording_date and
\* duration are copied from the transcript and left out.
ChunksOf(transcript, speaker_blocks) ==
  [j \in 1..Len(speaker_blocks) |->
     [text |-> BlockText(speaker_blocks[j]),
      metadata |->
        [transcript_id |-> Get(transcript, "id", <<>>),
         speaker |-> speaker_blocks[j].speaker,
         prev_speaker |-> IF j - 1 > 0 THEN speaker_blocks[j - 1].speaker
                          ELSE NoneStr,
         next_speaker |-> IF j - 1 < Len(speaker_blocks) - 1
                          THEN speaker_blocks[j + 1].speaker
                          ELSE NoneStr,
         chunk_index |-> j - 1,
         total_chunks |-> Len(speaker_blocks),
         source |-> "fireflies"]]]

\* lines 447-453: the keys of output["metadata"], which is chunk["metadata"]
\* (lines 317-329) with the four keys that ChunksOf leaves out
OutputMetadataKeys(chunk) ==
  DOMAIN chunk.metadata
    \cup {"title", "participants", "recording_date", "duration"}

\* process_transcript numbering its chunks from 1
process_transcript_from_one(tr) ==
  LET cs == ChunksOf(tr, SpeakerBlocks(tr))
  IN [j \in 1..Len(cs) |->
        [cs[j] EXCEPT !.metadata.chunk_index = j]]

\* lines 248-335
process_transcript(tr) ==
  ChunksOf(tr, SpeakerBlocks(tr))

(***************************************************************************)
(* Vector ids.  A transcript id is a str; an int is formatted in decimal.  *)
(***************************************************************************)
\* largest number of characters of a transcript id
MaxIdLen == 2
\* largest chunk index whose vector id is built
MaxIndex == 11

\* the characters of "fireflies_"
VectorIdPrefix == <<"f", "i", "r", "e", "f", "l", "i", "e", "s", "_">>

Digits == <<"0", "1", "2", "3", "4", "5", "6", "7", "8", "9">>

\* str(n) in an f-string, n >= 0
RECURSIVE Str(_)
Str(n) ==
  IF n < 10 THEN <<Digits[n + 1]>>
  ELSE Str(n \div 10) \o <<Digits[(n % 10) + 1]>>

\* REST process_transcript, line 295: f"fireflies_{transcript_id}"
RestVectorId(tid) == VectorIdPrefix \o tid

\* the GraphQL vector id without the "_" before the chunk index
GqlVectorIdUnseparated(tid, idx) == VectorIdPrefix \o tid \o Str(idx)

\* GraphQL main, line 449:
\* f"fireflies_{transcript_id}_{chunk['metadata']['chunk_index']}"
GqlVectorId(tid, idx) == VectorIdPrefix \o tid \o <<"_">> \o Str(idx)

\* the vector id the script builds; the REST script has one record per
\* transcript and uses no chunk index
VectorId(p, tid, idx) ==
  IF p = "rest" THEN RestVectorId(tid) ELSE GqlVectorId(tid, idx)

\* what the upsert of one record does: not attempted, done, or an exception
UpsertOutcomes == {"none", "ok", "failed"}

\* the record is written only when the upsert has gone through
RecordWrittenAfterUpsert(embedded, upsert) == embedded /\ upsert # "failed"

\* GraphQL main, lines 445-456: f.write comes right after the embedding and
\* before the upsert, whose outcome it cannot depend on
RecordWritten(embedded, upsert) == embedded

(***************************************************************************)
(* Listing.  The result set of the source is its first `total` transcripts;*)
(* the REST API serves it in pages of `limit` entries and reports the      *)
(* total in meta.total, the GraphQL API serves it in one response.         *)
(***************************************************************************)
\* REST get_all_transcript_ids, line 75
per_page == 100
\* --rate-limit-pause, default 1.0
rate_limit_pause == 1
\* time.sleep(10) of the rate-limit branch
RateLimitSleep == 10
\* GraphQL --batch-size, default 100
DefaultBatchSize == 100
\* largest number of full pages of a result set
MaxPages == 2

\* the result set of n transcripts, in source order
ResultSet(n) == [j \in 1..n |-> j]

\* data['data'] of the response to a request for page pg
PageOf(n, pg) ==
  SubSeq(ResultSet(n), (pg - 1) * per_page + 1, Min(pg * per_page, n))

\* what a listing request can get: a 200 response of the expected shape, a
\* 429 response, another error status, no response at all (connection
\* error, timeout), a GraphQL "errors" member, or a 200 response whose JSON
\* has another shape than the code reads
RestResponses ==
  {"ok", "rate_limited", "http_error", "no_response", "malformed"}
GqlResponses ==
  {"ok", "rate_limited", "http_error", "no_response", "graphql_errors",
   "malformed"}

\* no response is retried
RetriesNothing(resp) == FALSE

\* every request error is retried
RetriesEveryError(resp) == TRUE

\* REST lines 119-122: hasattr(e.response, 'status_code') and
\* e.response.status_code == 429
RetriesPage(resp) == resp = "rate_limited"

\* REST line 116: raise_for_status and the connection raise a
\* RequestException
IsRequestException(resp) ==
  resp \in {"rate_limited", "http_error", "no_response"}

\* GraphQL lines 160-161: if limit and len(transcripts) > limit
GqlLimit(transcripts, lim) ==
  IF lim # 0 /\ Len(transcripts) > lim THEN Take(transcripts, lim)
  ELSE transcripts

\* GraphQL fetch_transcripts_graphql: the value returned for a response
GqlListed(resp, n, lim) ==
  IF resp = "ok" THEN GqlLimit(ResultSet(n), lim) ELSE <<>>

\* a transcript without details ends the loop like an exception
LeavesLoopWithoutDetails(outcome) == outcome \in {"raise", "notfound"}

\* REST main, lines 376-407: only an exception leaves the batch loop; a
\* process_transcript that returns None (lines 237-240, 287-289) does not
LeavesLoop(outcome) == outcome = "raise"

(***************************************************************************)
(* The date filter of fetch_transcripts_graphql.  A date option is a day   *)
(* (the number of days since the epoch), a transcript's date a number of   *)
(* milliseconds since the epoch; an entry is a dict with the keys id and,  *)
(* when the transcript has one, date.                                      *)
(***************************************************************************)
\* largest day of a date option and of a transcript's date
MaxDay == 3
\* largest number of transcripts in the response
MaxEntries == 2

\* the milliseconds of a day
DayMs == 86400000

\* Python's None where a number is expected
NoDate == 0 - 1

\* datetime.strptime(date, "%Y-%m-%d").timestamp() * 1000: the first
\* millisecond of the day
Timestamp(date) == IF date = NoDate THEN NoDate ELSE date * DayMs

\* the end bound taken at the last millisecond of the end date
EndTimestampEndOfDay(date) ==
  IF date = NoDate THEN NoDate ELSE date * DayMs + (DayMs - 1)

\* line 134: end_timestamp, the first millisecond of the end date
EndTimestamp(date) == Timestamp(date)

\* the truth value of an optional number: None and 0 are false
Truthy(x) == x # NoDate /\ x # 0

\* lines 136-153: the entry passes the loop's three `continue`s
KeepsEntry(entry, start_timestamp, end_timestamp) ==
  LET recording_time == Get(entry, "date", NoDate) IN
    /\ Truthy(recording_time)
    /\ ~(Truthy(start_timestamp) /\ recording_time < start_timestamp)
    /\ ~(Truthy(end_timestamp) /\ recording_time > end_timestamp)

\* lines 130-157: if start_date or end_date, keep the entries that pass
DateFilter(transcripts, start, end) ==
  IF start = NoDate /\ end = NoDate THEN transcripts
  ELSE SelectSeq(transcripts,
                 LAMBDA t : KeepsEntry(t, Timestamp(start), EndTimestamp(end)))

\* lines 126-167 for a 200 response without errors: date filter, then the
\* limit, then the ids that are not empty
GqlIdsOf(transcripts, start, end, lim) ==
  LET cut == GqlLimit(DateFilter(transcripts, start, end), lim)
      withId == SelectSeq(cut, LAMBDA t : Get(t, "id", 0) # 0)
  IN [j \in 1..Len(withId) |-> withId[j].id]

(***************************************************************************)
(* Pacing: the network calls and the sleeps of the loop over the           *)
(* transcripts, in the order the code makes them.                          *)
(***************************************************************************)
\* largest number of transcripts of a paced loop
MaxHandled == 2

NetworkCalls == {"listing", "detail", "participants", "embedding", "upsert"}

RECURSIVE Flatten(_)
Flatten(seqs) ==
  IF seqs = <<>> THEN <<>> ELSE Head(seqs) \o Flatten(Tail(seqs))

\* one create_embedding: its calls to the service with a sleep before each
\* retry
EmbedEvents(e) ==
  [j \in 1..(e.calls + Len(e.pauses)) |->
     IF j % 2 = 1 THEN "embedding" ELSE "backoff"]

\* REST main lines 382-388 with process_transcript lines 233-289: detail
\* fetch, participants, embedding, then the pause, also when process_transcript
\* has returned None
RestTranscriptEvents(details, e) ==
  IF details = "notfound" THEN <<"detail", "pause">>
  ELSE <<"detail", "participants">> \o EmbedEvents(e) \o <<"pause">>

\* GraphQL main lines 442-477: embedding, then the upsert when an index is
\* connected
GqlChunkEvents(e, ups) ==
  EmbedEvents(e) \o (IF e.ok /\ ups THEN <<"upsert">> ELSE <<>>)

\* GraphQL main lines 423-490: es holds the create_embedding of each chunk;
\* the `continue`s of lines 430 and 437 leave out the sleep of line 486
GqlTranscriptEvents(outcome, es, ups) ==
  IF outcome # "ok" \/ es = <<>> THEN <<"detail">>
  ELSE <<"detail">>
         \o Flatten([c \in 1..Len(es) |-> GqlChunkEvents(es[c], ups)])
         \o <<"pause">>

(***************************************************************************)
(* Credentials.                                                            *)
(***************************************************************************)
Keys == {"FIREFLIES_API_KEY", "OPENAI_API_KEY", "PINECONE_API_KEY"}

\* REST lines 49-58: two keys; GraphQL lines 355-369: three, the Pinecone
\* key also when no --namespace is given
RequiredKeys(p) ==
  IF p = "rest" THEN {"FIREFLIES_API_KEY", "OPENAI_API_KEY"} ELSE Keys

\* the run goes on without its keys
ExitsAtKeyCheckNever(missing) == FALSE

\* if not <key>: logger.error(...); sys.exit(1)
ExitsAtKeyCheck(missing) == missing # {}

VARIABLES
  pipeline,         \* which script is run: "rest" or "graphql"
  args,             \* the parsed command line of the current run
  checkpoint_json,  \* file fireflies_export_checkpoint.json (REST)
  processed_txt,    \* file processed_transcripts.txt (GraphQL)
  sink,             \* file args.output: the sequence of records on disk
  outBuf,           \* records written to the open file object, not yet on disk
  pc,               \* position of the running process; "idle" when none runs
  status,           \* how the current / last run is ending
  runs,             \* number of runs started
  transcript_ids,   \* the list being processed (after filter and resume)
  processed_ids,    \* in-memory checkpoint (REST: set, GraphQL: list)
  i,                \* REST: first position of the current batch
  pos,              \* position in transcript_ids of the current transcript
  batch_results,    \* REST: results of the current batch
  results,          \* REST: results of all batches of the run
  chunks,           \* GraphQL: number of chunks of the current transcript
  k,                \* GraphQL: index of the chunk being processed
  listing,          \* history: ids returned by the listing call of the run
  loaded,           \* history: set of ids loaded from the checkpoint
  loadedFrom,       \* history: state of the checkpoint file when loaded
  fetched,          \* history: ids whose details were requested in the run
  warned,           \* history: the resume-id-not-found warning was logged
  okChunks,         \* history: chunks of the current transcript written
  produced,         \* history: records built from an embedding, all runs
  completed,        \* history: ids of the run's completed batches
  prevCompleted,    \* history: `completed` of the run that crashed last
  embedFailed,      \* history: records whose embedding failed on every call
  upsertFailed,     \* history: records of this transcript whose upsert raised
  notFound,         \* history: ids whose detail fetch returned nothing
  noChunks,         \* history: ids whose details gave no chunk
  missing_keys,     \* history: the required API keys the environment lacks
  text,             \* create_embedding: its argument
  svc,              \* create_embedding: outcomes of the service's calls
  embedding,        \* create_embedding: what the call yields
  transcript,       \* process_transcript: its argument
  speaker_blocks,   \* process_transcript: its local speaker_blocks
  chunk_list,       \* process_transcript: the chunks it returns
  id_args,          \* vector id: the transcript id and chunk index given
  vector_id,        \* vector id: the id built from them
  total,            \* listing: the number of transcripts of the result set
  limit,            \* listing: the limit argument (GraphQL)
  page,             \* listing: the page number of the next request (REST)
  all_transcripts,  \* listing: the entries collected so far (REST)
  slept,            \* listing: the seconds of the last time.sleep
  response,         \* listing: what the last request got
  listed,           \* listing: what the caller gets
  entries,          \* date filter: data.transcripts of the GraphQL response
  start_date,       \* date filter: --start-date, a day, or NoDate
  end_date,         \* date filter: --end-date, a day, or NoDate
  events,           \* pacing: the network calls and sleeps so far, in order
  handled,          \* pacing: the number of transcripts the loop has handled
  upserts,          \* pacing: `pinecone_index and args.namespace`
  processed_file,   \* repeated runs: the lines of processed_transcripts.txt
  rounds,           \* repeated runs: the number of complete runs so far
  unprocessed,      \* repeated runs: unprocessed_ids of the last run
  returned          \* the function called on its own has returned

vars == <<pipeline, args, checkpoint_json, processed_txt, sink, outBuf, pc,
          status, runs, transcript_ids, processed_ids, i, pos, batch_results,
          results, chunks, k, listing, loaded, loadedFrom, fetched, warned,
          okChunks, produced, completed, prevCompleted, embedFailed,
          upsertFailed, notFound, noChunks, missing_keys, text,
          svc, embedding, transcript, speaker_blocks, chunk_list, id_args,
          vector_id, total, limit, page, all_transcripts, slept, response,
          listed, entries, start_date, end_date, events, handled, upserts,
          processed_file, rounds, unprocessed, returned>>

durable == <<checkpoint_json, processed_txt, sink>>
history == <<listing, loaded, loadedFrom, fetched, warned, okChunks,
             produced, completed, prevCompleted, embedFailed, upsertFailed,
             notFound, noChunks, missing_keys>>

\* the state of a function called on its own (outside a run)
embedCall == <<text, svc, embedding>>
chunkCall == <<transcript, speaker_blocks, chunk_list>>
idCall == <<id_args, vector_id>>
listCall == <<total, limit, page, all_transcripts, slept, response, listed>>
dateCall == <<entries, start_date, end_date>>
paceCall == <<events, handled, upserts>>
repeatCall == <<processed_file, rounds, unprocessed>>
otherCalls == <<dateCall, paceCall, repeatCall>>
call == <<embedCall, chunkCall, idCall, listCall, otherCalls, returned>>

(***************************************************************************)
(* Checkpoint store.                                                       *)
(***************************************************************************)
MissingFile == [kind |-> "missing", ids |-> {}]
\* a file that exists and does not parse as JSON (open(.., "w") truncated it)
InvalidFile == [kind |-> "invalid", ids |-> {}]
JsonFile(ids) == [kind |-> "json", ids |-> ids]

\* processed_transcripts.txt: the sequence of its lines, when it exists
NoTxtFile == [exists |-> FALSE, lines |-> <<>>]
TxtFile(lines) == [exists |-> TRUE, lines |-> lines]

\* load_checkpoint with JSONDecodeError left uncaught
load_checkpoint_uncaught(file) ==
  [raised |-> file.kind = "invalid",
   ids |-> IF file.kind = "json" THEN file.ids ELSE {}]

\* load_checkpoint(): the set of the ids of a file that parses;
\* FileNotFoundError and JSONDecodeError are caught and give set().
\* raised: an exception leaves the function (none does).
load_checkpoint(file) ==
  [raised |-> FALSE, ids |-> IF file.kind = "json" THEN file.ids ELSE {}]

\* GraphQL main(): the lines of processed_transcripts.txt if
\* os.path.exists, else []
LoadProcessedTxt(file) ==
  IF file.exists THEN file.lines ELSE <<>>

\* what the next load would return, as a set
DurableIds ==
  IF pipeline = "rest" THEN load_checkpoint(checkpoint_json).ids
  ELSE Range(LoadProcessedTxt(processed_txt))

(***************************************************************************)
(* Listing, filtering and resume.                                          *)
(***************************************************************************)
\* The ids the listing call returns when the source holds its first n
\* transcripts.  REST: get_all_transcript_ids pages through all of them.
\* GraphQL: fetch_transcripts_graphql is called with limit = batch_size and
\* cuts the result to its first `limit` entries.
ListIds(p, n, a) ==
  IF p = "rest" THEN Take(Source, n)
  ELSE Take(Take(Source, n), a.batch_size)

\* the REST filter with the comprehension's condition dropped
RestFilterKeepAll(ids, processed) == ids

\* REST: if processed_ids: [id for id in transcript_ids if id not in processed_ids]
RestFilter(ids, processed) ==
  IF processed # {} THEN SelectSeq(ids, LAMBDA t : t \notin processed)
  ELSE ids

\* GraphQL: [tid for tid in transcript_ids if tid not in processed_ids or args.force]
GqlFilter(ids, processed, force) ==
  SelectSeq(ids, LAMBDA t : t \notin Range(processed) \/ force)

\* list.index(x): the first position of x, 0 standing for ValueError
Index(s, x) ==
  IF x \in Range(s) THEN CHOOSE n \in 1..Len(s) :
                            s[n] = x /\ \A m \in 1..(n-1) : s[m] # x
  ELSE 0

\* the resume block slicing one position late
ResumeFromAfter(ids, r) ==
  IF r # None /\ Index(ids, r) # 0
  THEN SubSeq(ids, Index(ids, r) + 1, Len(ids))
  ELSE ids

\* the resume block giving up the list when the id is not found
ResumeFromOrNothing(ids, r) ==
  IF r # None /\ Index(ids, r) # 0 THEN SubSeq(ids, Index(ids, r), Len(ids))
  ELSE IF r # None THEN <<>> ELSE ids

\* the --resume-from block of main(): transcript_ids[resume_index:], and
\* the list unchanged when index() raises ValueError
ResumeFrom(ids, r) ==
  IF r # None /\ Index(ids, r) # 0 THEN SubSeq(ids, Index(ids, r), Len(ids))
  ELSE ids

\* logger.warning(...) of the except ValueError branch
ResumeWarns(ids, r) == r # None /\ Index(ids, r) = 0

ArgSet ==
  [format : {"jsonl", "json"}, batch_size : 1..MaxBatch,
   resume_from : {None} \cup Ids, force : BOOLEAN, namespace : BOOLEAN]

\* the value of processed_ids before the checkpoint is loaded
NoProcessed(p) == IF p = "rest" THEN {} ELSE <<>>

(***************************************************************************)
(* Initial states.                                                         *)
(***************************************************************************)
NoArgs == [format |-> "jsonl", batch_size |-> 1, resume_from |-> None,
           force |-> FALSE, namespace |-> FALSE]

\* no process runs; the files are as given, r runs have been started
Fresh(p, cj, pt, r) ==
  /\ pipeline = p
  /\ args = NoArgs
  /\ checkpoint_json = cj
  /\ processed_txt = pt
  /\ sink = <<>>
  /\ outBuf = <<>>
  /\ pc = "idle"
  /\ status = "none"
  /\ runs = r
  /\ transcript_ids = <<>>
  /\ processed_ids = NoProcessed(p)
  /\ i = 1
  /\ pos = 1
  /\ batch_results = <<>>
  /\ results = <<>>
  /\ chunks = 0
  /\ k = 0
  /\ listing = <<>>
  /\ loaded = {}
  /\ loadedFrom = "none"
  /\ fetched = {}
  /\ warned = FALSE
  /\ okChunks = {}
  /\ produced = {}
  /\ completed = {}
  /\ prevCompleted = {}
  /\ embedFailed = {}
  /\ upsertFailed = {}
  /\ notFound = {}
  /\ noChunks = {}
  /\ missing_keys = {}

\* what `embedding` holds before create_embedding has returned
NoEmbedding == [input |-> <<>>, ok |-> FALSE, calls |-> 0, pauses |-> <<>>]

\* create_embedding is not called on its own
NoEmbedCall ==
  /\ text = <<>>
  /\ svc = <<>>
  /\ embedding = NoEmbedding

\* process_transcript is not called on its own
NoChunkCall ==
  /\ transcript = [id |-> 0]
  /\ speaker_blocks = <<>>
  /\ chunk_list = <<>>

\* no vector id is built on its own
NoIdCall ==
  /\ id_args = <<>>
  /\ vector_id = <<>>

\* what the caller of a listing function has got before it returns
NotListed == [outcome |-> "none", ids |-> <<>>]

\* no listing function is called on its own
NoListCall ==
  /\ total = 0
  /\ limit = 0
  /\ page = 1
  /\ all_transcripts = <<>>
  /\ slept = 0
  /\ response = "none"
  /\ listed = NotListed

\* the date filter is not applied on its own
NoDateCall ==
  /\ entries = <<>>
  /\ start_date = NoDate
  /\ end_date = NoDate

\* the loop over the transcripts is not run on its own
NoPaceCall ==
  /\ events = <<>>
  /\ handled = 0
  /\ upserts = FALSE

\* the script is not run again and again on its own
NoRepeatCall ==
  /\ processed_file = <<>>
  /\ rounds = 0
  /\ unprocessed = <<>>

NoOtherCalls == NoDateCall /\ NoPaceCall /\ NoRepeatCall

\* no function is called on its own
NoCall ==
  /\ NoEmbedCall
  /\ NoChunkCall
  /\ NoIdCall
  /\ NoListCall
  /\ NoOtherCalls
  /\ returned = FALSE

\* first use: no checkpoint file, empty output, no run yet
Init ==
  /\ \E p \in {"rest", "graphql"} : Fresh(p, MissingFile, NoTxtFile, 0)
  /\ NoCall

\* the ids of S in increasing order
SetToSeq(S) ==
  CHOOSE s \in [1..Cardinality(S) -> S] :
    \A a, b \in 1..Cardinality(S) : a < b => s[a] < s[b]

\* One run, started on any checkpoint earlier runs can have left: a missing
\* file, a file that does not parse, or the ids of any set of transcripts.
InitRun ==
  /\ \/ \E cj \in {MissingFile, InvalidFile}
                     \cup {JsonFile(S) : S \in SUBSET Ids} :
          Fresh("rest", cj, NoTxtFile, MaxRuns - 1)
     \/ \E pt \in {NoTxtFile} \cup {TxtFile(SetToSeq(S)) : S \in SUBSET Ids} :
          Fresh("graphql", MissingFile, pt, MaxRuns - 1)
  /\ NoCall

(***************************************************************************)
(* Start of a run: parse the options, list the ids, load the checkpoint,   *)
(* filter, apply --resume-from.  Nothing durable changes.                  *)
(***************************************************************************)
\* REST main(), lines 348-374.  The script has no --force option.  An
\* exception of load_checkpoint would leave main() before the try statement
\* and end the process.
RestStart(a, n) ==
  LET ids == ListIds("rest", n, a)
      got == load_checkpoint(checkpoint_json)
      processed == got.ids
      filtered == RestFilter(ids, processed)
      todo == ResumeFrom(filtered, a.resume_from)
  IN /\ pipeline = "rest"
     /\ a.force = FALSE
     /\ a.namespace = FALSE
     /\ listing' = ids
     /\ loadedFrom' = checkpoint_json.kind
     /\ IF got.raised
        THEN /\ pc' = "idle"
             /\ status' = "failed"
             /\ processed_ids' = {}
             /\ loaded' = {}
             /\ transcript_ids' = <<>>
             /\ warned' = FALSE
        ELSE /\ status' = "running"
             /\ processed_ids' = processed
             /\ loaded' = processed
             /\ transcript_ids' = todo
             /\ warned' = ResumeWarns(filtered, a.resume_from)
             /\ pc' = IF Len(todo) > 0 THEN "fetch" ELSE "finally"

\* the GraphQL start with the --resume-from block ahead of the filter
GqlStartResumeFirst(a, n) ==
  LET processed == LoadProcessedTxt(processed_txt)
      ids == ListIds("graphql", n, a)
      todo == GqlFilter(ResumeFrom(ids, a.resume_from), processed, a.force)
  IN /\ pipeline = "graphql"
     /\ a.format = "jsonl"
     /\ status' = "running"
     /\ listing' = ids
     /\ loadedFrom' = IF processed_txt.exists THEN "lines" ELSE "missing"
     /\ processed_ids' = processed
     /\ loaded' = Range(processed)
     /\ transcript_ids' = todo
     /\ warned' = ResumeWarns(ids, a.resume_from)
     /\ pc' = IF Len(todo) > 0 THEN "fetch" ELSE "close"

\* GraphQL main(), lines 371-421.  --format is parsed and never read: only
\* its default is modelled.
GqlStart(a, n) ==
  LET processed == LoadProcessedTxt(processed_txt)
      ids == ListIds("graphql", n, a)
      filtered == GqlFilter(ids, processed, a.force)
      todo == ResumeFrom(filtered, a.resume_from)
  IN /\ pipeline = "graphql"
     /\ a.format = "jsonl"
     /\ status' = "running"
     /\ listing' = ids
     /\ loadedFrom' = IF processed_txt.exists THEN "lines" ELSE "missing"
     /\ processed_ids' = processed
     /\ loaded' = Range(processed)
     /\ transcript_ids' = todo
     /\ warned' = ResumeWarns(filtered, a.resume_from)
     /\ pc' = IF Len(todo) > 0 THEN "fetch" ELSE "close"

\* the process is gone: its memory is reset, the history of the run is kept
\* until the next run starts
EndOfProcess ==
  /\ pc' = "idle"
  /\ transcript_ids' = <<>>
  /\ processed_ids' = NoProcessed(pipeline)
  /\ i' = 1
  /\ pos' = 1
  /\ batch_results' = <<>>
  /\ results' = <<>>
  /\ chunks' = 0
  /\ k' = 0
  /\ outBuf' = <<>>
  /\ args' = NoArgs
  /\ listing' = <<>>
  /\ loaded' = {}
  /\ loadedFrom' = "none"
  /\ fetched' = {}
  /\ warned' = FALSE
  /\ okChunks' = {}
  /\ embedFailed' = {}
  /\ upsertFailed' = {}
  /\ notFound' = {}
  /\ noChunks' = {}

\* the process exits at the key check: sys.exit(1) before main() does
\* anything (REST lines 53-58, at import; GraphQL lines 359-369)
ConfigAbort ==
  /\ status' = "config_missing"
  /\ EndOfProcess
  /\ UNCHANGED <<pipeline, durable, produced, completed, prevCompleted, call>>

\* the run gets past the key check
Started ==
  /\ \E a \in ArgSet, n \in 0..NumIds :
       /\ args' = a
       /\ RestStart(a, n) \/ GqlStart(a, n)
  /\ i' = 1
  /\ pos' = 1
  /\ batch_results' = <<>>
  /\ results' = <<>>
  /\ chunks' = 0
  /\ k' = 0
  /\ fetched' = {}
  /\ okChunks' = {}
  /\ completed' = {}
  /\ prevCompleted' = IF status = "crashed" THEN completed ELSE {}
  /\ embedFailed' = {}
  /\ upsertFailed' = {}
  /\ notFound' = {}
  /\ noChunks' = {}
  /\ UNCHANGED <<pipeline, durable, outBuf, produced, call>>

\* env: the API keys the environment holds (a key set to "" counts as
\* absent: `if not key`)
StartRun ==
  /\ pc = "idle"
  /\ runs < MaxRuns
  /\ runs' = runs + 1
  /\ \E env \in SUBSET Keys :
       LET missing == RequiredKeys(pipeline) \ env IN
       /\ missing_keys' = missing
       /\ IF ExitsAtKeyCheck(missing) THEN ConfigAbort ELSE Started

(***************************************************************************)
(* REST pipeline: the batch loop of main(), lines 376-402.                 *)
(***************************************************************************)
\* last position of the batch that starts at i
BatchEnd == Min(i + args.batch_size - 1, Len(transcript_ids))

\* ids of the transcripts of a list of REST results
ResultIds(rs) == {rs[n][1] : n \in DOMAIN rs}

\* the outer for statement moves to the next batch, or the loop ends
RestNextBatch ==
  /\ i' = i + args.batch_size
  /\ pos' = i + args.batch_size
  /\ batch_results' = <<>>
  /\ completed' = completed \cup ResultIds(batch_results)
  /\ pc' = IF i + args.batch_size > Len(transcript_ids) THEN "finally"
           ELSE "fetch"

\* one iteration of `for transcript_id in batch`: process_transcript and the
\* bookkeeping of lines 383-386; after the last transcript of the batch,
\* results.extend(batch_results).  details: what the detail fetch and the
\* code around it do; s: what the embedding service does.  The outcome of
\* process_transcript is "ok" (a record), "notfound" or "noembedding" (None)
\* or "raise".
RestProcessTranscript ==
  /\ pipeline = "rest"
  /\ pc = "fetch"
  /\ LET tid == transcript_ids[pos] IN
     \E details \in {"found", "notfound", "raise"}, s \in Service :
       LET e == Attempts("rest", s)
           outcome == IF details # "found" THEN details
                      ELSE IF e.ok THEN "ok" ELSE "noembedding"
       IN
       /\ fetched' = fetched \cup {tid}
       /\ notFound' = IF details = "notfound" THEN notFound \cup {tid}
                      ELSE notFound
       /\ noChunks' = noChunks
       /\ embedFailed' = IF details = "found" /\ Exhausted(s, e)
                         THEN embedFailed \cup {RestRecord(tid)}
                         ELSE embedFailed
       /\ IF LeavesLoop(outcome)
          THEN \* except Exception of main(): the loop is left
               /\ pc' = "finally"
               /\ status' = "aborted"
               /\ UNCHANGED <<batch_results, processed_ids, produced, pos,
                              results>>
          ELSE LET br == IF outcome = "ok"
                         THEN Append(batch_results, RestRecord(tid))
                         ELSE batch_results
               IN /\ batch_results' = br
                  /\ processed_ids' = IF outcome = "ok"
                                      THEN processed_ids \cup {tid}
                                      ELSE processed_ids
                  /\ produced' = IF outcome = "ok"
                                 THEN produced \cup {RestRecord(tid)}
                                 ELSE produced
                  /\ pos' = pos + 1
                  /\ IF pos = BatchEnd
                     THEN /\ results' = results \o br
                          /\ pc' = "save_open"
                     ELSE UNCHANGED <<results, pc>>
                  /\ UNCHANGED status
  /\ UNCHANGED <<pipeline, args, durable, outBuf, runs, transcript_ids, i,
                 chunks, k, listing, loaded, loadedFrom, warned, okChunks, completed,
                 prevCompleted, upsertFailed, missing_keys, call>>

\* save_checkpoint, line 335: open(..., "w") truncates the file
RestSaveOpen ==
  /\ pipeline = "rest"
  /\ pc = "save_open"
  /\ checkpoint_json' = InvalidFile
  /\ pc' = "save_dump"
  /\ UNCHANGED <<pipeline, args, processed_txt, sink, outBuf, status, runs,
                 transcript_ids, processed_ids, i, pos, batch_results,
                 results, chunks, k, history, call>>

\* save_checkpoint, line 336: json.dump and close; then lines 397-398
RestSaveDump ==
  /\ pipeline = "rest"
  /\ pc = "save_dump"
  /\ checkpoint_json' = JsonFile(processed_ids)
  /\ IF batch_results # <<>> /\ args.format = "jsonl"
     THEN /\ pc' = "append"
          /\ UNCHANGED <<i, pos, batch_results, completed>>
     ELSE RestNextBatch
  /\ UNCHANGED <<pipeline, args, processed_txt, sink, outBuf, status, runs,
                 transcript_ids, processed_ids, results, chunks, k, listing,
                 loaded, loadedFrom, fetched, warned, okChunks, produced,
                 prevCompleted, embedFailed, upsertFailed,
                 notFound, noChunks, missing_keys, call>>

\* lines 399-401: the batch's records are appended to the output file
RestAppend ==
  /\ pipeline = "rest"
  /\ pc = "append"
  /\ sink' = sink \o batch_results
  /\ RestNextBatch
  /\ UNCHANGED <<pipeline, args, checkpoint_json, processed_txt, outBuf,
                 status, runs, transcript_ids, processed_ids, results, chunks,
                 k, listing, loaded, loadedFrom, fetched, warned, okChunks, produced,
                 prevCompleted, embedFailed, upsertFailed,
                 notFound, noChunks, missing_keys, call>>

\* the finally clause, lines 408-416.  With --format json and results, the
\* output file is opened with mode "w", which truncates it; otherwise the
\* run ends.
RestFinally ==
  /\ pipeline = "rest"
  /\ pc = "finally"
  /\ IF args.format = "json" /\ results # <<>>
     THEN /\ sink' = <<>>
          /\ pc' = "dump"
          /\ UNCHANGED <<pipeline, args, checkpoint_json, processed_txt,
                         outBuf, status, runs, transcript_ids, processed_ids,
                         i, pos, batch_results, results, chunks, k, history>>
     ELSE /\ status' = IF status = "running" THEN "completed" ELSE status
          /\ EndOfProcess
          /\ UNCHANGED <<pipeline, durable, runs, produced, completed,
                         prevCompleted, missing_keys>>
  /\ UNCHANGED call

\* line 412: json.dump({"vectors": results}, f), and the run ends
RestFinalDump ==
  /\ pipeline = "rest"
  /\ pc = "dump"
  /\ sink' = results
  /\ status' = IF status = "running" THEN "completed" ELSE status
  /\ EndOfProcess
  /\ UNCHANGED <<pipeline, checkpoint_json, processed_txt, runs, produced,
                 completed, prevCompleted, missing_keys, call>>

(***************************************************************************)
(* GraphQL pipeline: the transcript loop of main(), lines 421-490.  The    *)
(* output file is opened once, in append mode, around the whole loop: a    *)
(* record written to it sits in the file object's buffer until the buffer  *)
(* is written through or the file is closed.                               *)
(***************************************************************************)
\* `continue`, or the end of the loop body: the next transcript
GqlNext ==
  /\ pos' = pos + 1
  /\ pc' = IF pos + 1 > Len(transcript_ids) THEN "close" ELSE "fetch"

\* lines 423-439 and 488-490: fetch the details and chunk them.  A failed
\* fetch, a transcript without chunks and an exception all skip the
\* transcript.
GqlFetch ==
  /\ pipeline = "graphql"
  /\ pc = "fetch"
  /\ LET tid == transcript_ids[pos] IN
     \E outcome \in {"ok", "notfound", "raise"} :
       /\ fetched' = fetched \cup {tid}
       /\ notFound' = IF outcome = "notfound" THEN notFound \cup {tid}
                      ELSE notFound
       /\ noChunks' = IF outcome = "ok" /\ TotalChunks(tid) = 0
                      THEN noChunks \cup {tid}
                      ELSE noChunks
       /\ IF outcome = "ok" /\ TotalChunks(tid) > 0
          THEN /\ chunks' = TotalChunks(tid)
               /\ k' = 0
               /\ pc' = "chunk"
               /\ UNCHANGED pos
          ELSE /\ GqlNext
               /\ UNCHANGED <<chunks, k>>
  /\ okChunks' = {}
  /\ upsertFailed' = {}
  /\ UNCHANGED <<pipeline, args, durable, outBuf, status, runs,
                 transcript_ids, processed_ids, i, batch_results, results,
                 listing, loaded, loadedFrom, warned, produced, completed,
                 prevCompleted, embedFailed, missing_keys, call>>

\* lines 442-477, one chunk: embed, build the record, f.write it.  A failed
\* embedding is logged and the loop goes on with the next chunk.  e: what
\* create_embedding does with the embedding service; through: whether this write makes the file
\* object write its buffer to disk; upsert: what the upsert of lines 459-474
\* does, which is attempted after the write when --namespace is given and
\* whose exception is caught and logged at lines 473-474.
GqlChunk ==
  /\ pipeline = "graphql"
  /\ pc = "chunk"
  /\ LET rec == GqlRecord(transcript_ids[pos], k)
         \* what create_embedding can do, over all the services
         calls == {[ok |-> Attempts("graphql", s).ok,
                    exhausted |-> Exhausted(s, Attempts("graphql", s))] :
                     s \in Service}
     IN
     \E e \in calls, through \in BOOLEAN, upsert \in UpsertOutcomes :
       LET embedded == e.ok IN
       /\ upsert # "none" <=> (embedded /\ args.namespace)
       /\ upsertFailed' = IF upsert = "failed" THEN upsertFailed \cup {rec}
                          ELSE upsertFailed
       /\ embedFailed' = IF e.exhausted THEN embedFailed \cup {rec}
                         ELSE embedFailed
       /\ IF RecordWritten(embedded, upsert)
          THEN /\ produced' = produced \cup {rec}
               /\ okChunks' = okChunks \cup {k}
               /\ IF through
                  THEN /\ sink' = sink \o Append(outBuf, rec)
                       /\ outBuf' = <<>>
                  ELSE /\ outBuf' = Append(outBuf, rec)
                       /\ UNCHANGED sink
          ELSE /\ through = FALSE
               /\ UNCHANGED <<produced, okChunks, sink, outBuf>>
  /\ k' = k + 1
  /\ pc' = IF k + 1 = chunks THEN "mark" ELSE "chunk"
  /\ UNCHANGED <<pipeline, args, checkpoint_json, processed_txt, status, runs,
                 transcript_ids, processed_ids, i, pos, batch_results,
                 results, chunks, listing, loaded, loadedFrom, fetched, warned, completed,
                 prevCompleted, notFound, noChunks, missing_keys, call>>

\* lines 479-483: the id is appended to processed_transcripts.txt
GqlMark ==
  /\ pipeline = "graphql"
  /\ pc = "mark"
  /\ processed_txt' = TxtFile(Append(processed_txt.lines,
                                      transcript_ids[pos]))
  /\ completed' = completed \cup {transcript_ids[pos]}
  /\ GqlNext
  /\ UNCHANGED <<pipeline, args, checkpoint_json, sink, outBuf, status, runs,
                 transcript_ids, processed_ids, i, batch_results, results,
                 chunks, k, listing, loaded, loadedFrom, fetched, warned, okChunks,
                 produced, prevCompleted, embedFailed, upsertFailed,
                 notFound, noChunks, missing_keys, call>>

\* the with statement of line 421 is left: the file is flushed and closed
GqlClose ==
  /\ pipeline = "graphql"
  /\ pc = "close"
  /\ sink' = sink \o outBuf
  /\ status' = IF status = "running" THEN "completed" ELSE status
  /\ EndOfProcess
  /\ UNCHANGED <<pipeline, checkpoint_json, processed_txt, runs, produced,
                 completed, prevCompleted, missing_keys, call>>

(***************************************************************************)
(* The environment: an interrupt (KeyboardInterrupt) and a crash of the    *)
(* process (kill, power loss), each at any point of the loop.              *)
(***************************************************************************)
\* REST: except KeyboardInterrupt, then the finally clause.  GraphQL: the
\* exception leaves the with statement (no handler catches it).
Interrupt ==
  /\ \/ pipeline = "rest" /\ pc \in {"fetch", "save_open", "save_dump", "append"}
        /\ pc' = "finally"
     \/ pipeline = "graphql" /\ pc \in {"fetch", "chunk", "mark"}
        /\ pc' = "close"
  /\ status' = "interrupted"
  /\ UNCHANGED <<pipeline, args, durable, outBuf, runs, transcript_ids,
                 processed_ids, i, pos, batch_results, results, chunks, k,
                 history, call>>

\* the process dies: memory and unwritten buffers are lost, files stay
Crash ==
  /\ pc # "idle"
  /\ status' = "crashed"
  /\ EndOfProcess
  /\ UNCHANGED <<pipeline, durable, runs, produced, completed,
                 prevCompleted, missing_keys, call>>

Next ==
  \/ StartRun
  \/ RestProcessTranscript
  \/ RestSaveOpen
  \/ RestSaveDump
  \/ RestAppend
  \/ RestFinally
  \/ RestFinalDump
  \/ GqlFetch
  \/ GqlChunk
  \/ GqlMark
  \/ GqlClose
  \/ Interrupt
  \/ Crash

Spec == Init /\ [][Next]_vars

\* a single run from any checkpoint
SpecRun == InitRun /\ [][Next]_vars

(***************************************************************************)
(* create_embedding called on its own: one call, for every text of a       *)
(* bounded set and every behaviour of the embedding service.               *)
(***************************************************************************)
\* largest number of sentences of a transcript
MaxSentences == 3
\* largest speaker_id of a sentence (the ids are 0..MaxSpeaker)
MaxSpeaker == 1

\* all variables of a run
run == <<pipeline, args, checkpoint_json, processed_txt, sink, outBuf, pc,
         status, runs, transcript_ids, processed_ids, i, pos, batch_results,
         results, chunks, k, history>>

\* no run is started
NoRun(p) == Fresh(p, MissingFile, NoTxtFile, MaxRuns)

\* the texts of the sentences: "hi", "there", "hey"
Words == {<<"h", "i">>, <<"t", "h", "e", "r", "e">>, <<"h", "e", "y">>}

\* a sentence of the API: a dict whose keys speaker_id and text may be absent
Sentence ==
  [speaker_id : 0..MaxSpeaker, text : Words]
    \cup [speaker_id : 0..MaxSpeaker] \cup [text : Words] \cup {<<>>}

SentenceSeqs == UNION {[1..n -> Sentence] : n \in 0..MaxSentences}

\* the transcripts handed to process_transcript; the key sentences may be
\* absent
Transcripts ==
  {[id |-> 1]} \cup {[id |-> 1, sentences |-> s] : s \in SentenceSeqs}

\* the texts of the chunks of these transcripts
ChunkTexts ==
  UNION {{c.text : c \in Range(process_transcript(t))} : t \in Transcripts}

Letters == <<"a", "b", "c">>
\* a text of len characters
Text(len, off) == [n \in 1..len |-> Letters[((n + off) % Len(Letters)) + 1]]

\* texts around the truncation length
LongTexts ==
  {Text(len, off) : len \in {Ceiling - 1, Ceiling, Ceiling + 1,
                             Ceiling + MaxOver},
                    off \in {0, 1}}

InitEmbed ==
  /\ \E p \in {"rest", "graphql"} : NoRun(p)
  /\ text \in ChunkTexts \cup LongTexts
  /\ svc \in Service
  /\ embedding = NoEmbedding
  /\ NoChunkCall
  /\ NoIdCall
  /\ NoListCall
  /\ NoOtherCalls
  /\ returned = FALSE

\* REST create_embedding(text)
RestEmbed ==
  /\ pipeline = "rest"
  /\ ~returned
  /\ embedding' = RestCreateEmbedding(text, svc)
  /\ returned' = TRUE
  /\ UNCHANGED <<run, text, svc, chunkCall, idCall, listCall, otherCalls>>

\* GraphQL create_embedding(text)
GqlEmbed ==
  /\ pipeline = "graphql"
  /\ ~returned
  /\ embedding' = GqlCreateEmbedding(text, svc)
  /\ returned' = TRUE
  /\ UNCHANGED <<run, text, svc, chunkCall, idCall, listCall, otherCalls>>

NextEmbed == RestEmbed \/ GqlEmbed

SpecEmbed == InitEmbed /\ [][NextEmbed]_vars

(***************************************************************************)
(* process_transcript of the GraphQL script called on its own, for every   *)
(* transcript of a bounded set.                                            *)
(***************************************************************************)
InitChunk ==
  /\ NoRun("graphql")
  /\ transcript \in Transcripts
  /\ speaker_blocks = <<>>
  /\ chunk_list = <<>>
  /\ returned = FALSE
  /\ NoEmbedCall
  /\ NoIdCall
  /\ NoListCall
  /\ NoOtherCalls

\* chunks = process_transcript(transcript)
Chunk ==
  /\ ~returned
  /\ speaker_blocks' = SpeakerBlocks(transcript)
  /\ chunk_list' = process_transcript(transcript)
  /\ returned' = TRUE
  /\ UNCHANGED <<run, embedCall, idCall, listCall, otherCalls, transcript>>

NextChunk == Chunk

SpecChunk == InitChunk /\ [][NextChunk]_vars

(***************************************************************************)
(* The vector id built on its own, for every transcript id of a bounded    *)
(* set of strs and every chunk index up to MaxIndex.                       *)
(***************************************************************************)
\* the characters of the transcript ids: a letter, a digit and the
\* separator the vector id uses
IdChars == {"a", "1", "_"}

IdStrs == UNION {[1..n -> IdChars] : n \in 1..MaxIdLen}

\* the pairs (transcript id, chunk index) a script builds vector ids from
IdArgs(p) ==
  IF p = "rest" THEN IdStrs \X {0} ELSE IdStrs \X (0..MaxIndex)

InitId ==
  /\ \E p \in {"rest", "graphql"} : NoRun(p)
  /\ id_args \in IdArgs(pipeline)
  /\ vector_id = <<>>
  /\ returned = FALSE
  /\ NoEmbedCall
  /\ NoChunkCall
  /\ NoListCall
  /\ NoOtherCalls

\* REST: vector_id = f"fireflies_{transcript_id}"
RestBuildId ==
  /\ pipeline = "rest"
  /\ ~returned
  /\ vector_id' = RestVectorId(id_args[1])
  /\ returned' = TRUE
  /\ UNCHANGED <<run, embedCall, chunkCall, listCall, otherCalls, id_args>>

\* GraphQL: "id": f"fireflies_{transcript_id}_{chunk_index}"
GqlBuildId ==
  /\ pipeline = "graphql"
  /\ ~returned
  /\ vector_id' = GqlVectorId(id_args[1], id_args[2])
  /\ returned' = TRUE
  /\ UNCHANGED <<run, embedCall, chunkCall, listCall, otherCalls, id_args>>

NextId == RestBuildId \/ GqlBuildId

SpecId == InitId /\ [][NextId]_vars

(***************************************************************************)
(* The listing functions on their own: REST get_all_transcript_ids, one    *)
(* action per pass of its while loop, and GraphQL                          *)
(* fetch_transcripts_graphql, which makes one request.                     *)
(***************************************************************************)
\* the sizes of the result set: around each page boundary
Totals ==
  {q * per_page + r : q \in 0..MaxPages, r \in {0, 1, per_page - 1}}

\* the limits fetch_transcripts_graphql is called with: args.batch_size
Limits == (0..MaxBatch) \cup {DefaultBatchSize}

InitList ==
  /\ \E p \in {"rest", "graphql"} : NoRun(p)
  /\ total \in Totals
  /\ limit \in IF pipeline = "rest" THEN {0} ELSE Limits
  /\ page = 1
  /\ all_transcripts = <<>>
  /\ slept = 0
  /\ response = "none"
  /\ listed = NotListed
  /\ returned = FALSE
  /\ NoEmbedCall
  /\ NoChunkCall
  /\ NoIdCall
  /\ NoOtherCalls

\* return [t['id'] for t in all_transcripts]
ReturnIds(ids) ==
  /\ listed' = [outcome |-> "ids", ids |-> ids]
  /\ returned' = TRUE

\* one pass of `while True`, lines 89-124
RestListPage ==
  /\ pipeline = "rest"
  /\ ~returned
  /\ \E resp \in RestResponses :
       /\ response' = resp
       /\ IF resp = "ok"
          THEN LET page_transcripts == PageOf(total, page)
                   all == all_transcripts \o page_transcripts
               IN /\ all_transcripts' = all
                  /\ IF Len(all) >= total \/ page_transcripts = <<>>
                     THEN /\ ReturnIds(all)
                          /\ UNCHANGED <<page, slept>>
                     ELSE /\ page' = page + 1
                          /\ slept' = rate_limit_pause
                          /\ UNCHANGED <<listed, returned>>
          ELSE IF IsRequestException(resp)
          THEN IF RetriesPage(resp)
               THEN /\ slept' = RateLimitSleep
                    /\ UNCHANGED <<page, all_transcripts, listed, returned>>
               ELSE /\ ReturnIds(all_transcripts)
                    /\ UNCHANGED <<page, all_transcripts, slept>>
          ELSE \* an exception the function does not catch
               /\ listed' = [outcome |-> "raise", ids |-> <<>>]
               /\ returned' = TRUE
               /\ UNCHANGED <<page, all_transcripts, slept>>
  /\ UNCHANGED <<run, embedCall, chunkCall, idCall, otherCalls, total, limit>>

\* fetch_transcripts_graphql, lines 109-172: every failure returns []
GqlList ==
  /\ pipeline = "graphql"
  /\ ~returned
  /\ \E resp \in GqlResponses :
       /\ response' = resp
       /\ ReturnIds(GqlListed(resp, total, limit))
  /\ UNCHANGED <<run, embedCall, chunkCall, idCall, otherCalls, total,
                 limit, page,
                 all_transcripts, slept>>

NextList == RestListPage \/ GqlList

SpecList == InitList /\ [][NextList]_vars

\* The loop keeps running, and the source does not answer 429 for ever: a
\* 429 answered to the retry of a 429 leaves every variable as it is, so
\* weak fairness of the pass asks for a pass with another answer.
SpecListFair ==
  InitList /\ [][NextList]_vars /\ WF_vars(RestListPage) /\ WF_vars(GqlList)

(***************************************************************************)
(* The date filter on its own: fetch_transcripts_graphql on a 200 response *)
(* whose transcripts carry dates around the day boundaries.                *)
(***************************************************************************)
\* the instants a transcript can carry: the first millisecond of a day, the
\* one after it and the last one of the day
Instants ==
  {day * DayMs + off : day \in 1..MaxDay, off \in {0, 1, DayMs - 1}}

\* the entries: transcript j of the response has id j, with or without date
EntryOf(j, d) == IF d = NoDate THEN [id |-> j] ELSE [id |-> j, date |-> d]

Responses ==
  UNION {{[j \in 1..n |-> EntryOf(j, ds[j])] :
            ds \in [1..n -> Instants \cup {NoDate}]} : n \in 0..MaxEntries}

DateOptions == {NoDate} \cup (1..MaxDay)

InitDate ==
  /\ NoRun("graphql")
  /\ entries \in Responses
  /\ start_date \in DateOptions
  /\ end_date \in DateOptions
  /\ limit \in 0..MaxEntries
  /\ total = Len(entries)
  /\ page = 1
  /\ all_transcripts = <<>>
  /\ slept = 0
  /\ response = "none"
  /\ listed = NotListed
  /\ returned = FALSE
  /\ NoEmbedCall
  /\ NoChunkCall
  /\ NoIdCall
  /\ NoPaceCall
  /\ NoRepeatCall

\* fetch_transcripts_graphql(api_key, start_date, end_date, limit) on a 200
\* response without errors
GqlListDated ==
  /\ ~returned
  /\ response' = "ok"
  /\ ReturnIds(GqlIdsOf(entries, start_date, end_date, limit))
  /\ UNCHANGED <<run, embedCall, chunkCall, idCall, otherCalls,
                 total, limit, page, all_transcripts, slept>>

NextDate == GqlListDated

SpecDate == InitDate /\ [][NextDate]_vars

(***************************************************************************)
(* The loop over the transcripts on its own, after one listing call:       *)
(* which network calls and sleeps follow each other.                       *)
(***************************************************************************)
InitPace ==
  /\ \E p \in {"rest", "graphql"} : NoRun(p)
  /\ events = <<"listing">>
  /\ handled = 0
  /\ upserts \in IF pipeline = "rest" THEN {FALSE} ELSE BOOLEAN
  /\ returned = FALSE
  /\ NoEmbedCall
  /\ NoChunkCall
  /\ NoIdCall
  /\ NoListCall
  /\ NoDateCall
  /\ NoRepeatCall

\* one iteration of `for transcript_id in batch`
RestPace ==
  /\ pipeline = "rest"
  /\ handled < MaxHandled
  /\ \E details \in {"found", "notfound"}, s \in Service :
       events' = events \o RestTranscriptEvents(details, Attempts("rest", s))
  /\ handled' = handled + 1
  /\ UNCHANGED <<run, embedCall, chunkCall, idCall, listCall, dateCall,
                 repeatCall, upserts, returned>>

\* one iteration of `for transcript_id in unprocessed_ids`
GqlPace ==
  /\ pipeline = "graphql"
  /\ handled < MaxHandled
  /\ LET calls == {Attempts("graphql", s) : s \in Service} IN
     \E outcome \in {"ok", "notfound"}, n \in 0..MaxChunks :
       \E es \in [1..n -> calls] :
         events' = events \o GqlTranscriptEvents(outcome, es, upserts)
  /\ handled' = handled + 1
  /\ UNCHANGED <<run, embedCall, chunkCall, idCall, listCall, dateCall,
                 repeatCall, upserts, returned>>

NextPace == RestPace \/ GqlPace

SpecPace == InitPace /\ [][NextPace]_vars

(***************************************************************************)
(* The GraphQL script run to its end again and again on a source that does *)
(* not change, without dates and without --force, every transcript being   *)
(* fetched, cut into at least one chunk and embedded.                      *)
(***************************************************************************)
\* largest number of runs in a row
MaxRounds == 2

\* the files an earlier use of the script can have left: ids in ascending
\* order
ProcessedFiles(n) ==
  {SelectSeq(ResultSet(n), LAMBDA t : t \in S) : S \in SUBSET (1..n)}

InitRepeat ==
  /\ NoRun("graphql")
  /\ total \in 0..NumIds
  /\ limit \in Limits
  /\ processed_file \in ProcessedFiles(total)
  /\ rounds = 0
  /\ unprocessed = <<>>
  /\ page = 1
  /\ all_transcripts = <<>>
  /\ slept = 0
  /\ response = "none"
  /\ listed = NotListed
  /\ returned = FALSE
  /\ NoEmbedCall
  /\ NoChunkCall
  /\ NoIdCall
  /\ NoDateCall
  /\ NoPaceCall

\* main() from the load of processed_transcripts.txt (lines 371-376) to the
\* end of the loop: the listing with limit = args.batch_size, the filter,
\* and one line appended to the file for every transcript of the filtered
\* list (lines 479-481)
GqlCompleteRun ==
  /\ rounds < MaxRounds
  /\ LET transcript_ids_ == GqlListed("ok", total, limit)
         unprocessed_ids == GqlFilter(transcript_ids_, processed_file, FALSE)
     IN /\ response' = "ok"
        /\ listed' = [outcome |-> "ids", ids |-> transcript_ids_]
        /\ unprocessed' = unprocessed_ids
        /\ processed_file' = processed_file \o unprocessed_ids
  /\ rounds' = rounds + 1
  /\ UNCHANGED <<run, embedCall, chunkCall, idCall, dateCall, paceCall,
                 total, limit, page, all_transcripts, slept, returned>>

NextRepeat == GqlCompleteRun

SpecRepeat == InitRepeat /\ [][NextRepeat]_vars

(***************************************************************************)
(* Properties.                                                             *)
(***************************************************************************)
\* number of lines of the output file that hold record r
Count(s, r) == Cardinality({n \in DOMAIN s : s[n] = r})

\* the records (one per vector id) a fully exported transcript has
RecordsOf(tid) ==
  IF pipeline = "rest" THEN {RestRecord(tid)}
  ELSE {GqlRecord(tid, c) : c \in 0..(TotalChunks(tid) - 1)}

\* the for loop of main() ran to its end (no interrupt, exception or crash)
LoopCompleted == pc \in {"finally", "dump", "close"} /\ status = "running"

\* the listing without the ids of the loaded checkpoint (all of it with
\* --force), in listing order
Filtered == SelectSeq(listing, LAMBDA t : t \notin loaded \/ args.force)

\* C1: write-before-checkpoint.  In every state, each transcript id of the
\* durable checkpoint has every record produced for it in the output file.
C1_WriteBeforeCheckpoint ==
  \A r \in produced : r[1] \in DurableIds => r \in Range(sink)

\* C2: partial transcripts are never marked done.  A step adds an id to the
\* durable checkpoint only if every chunk of that transcript was embedded
\* and its record handed to the writer (REST: the transcript's one record
\* is among the results; GraphQL: every chunk's record was written to the
\* output file object).  Whether the records are on disk by then is C1.
C2_NoPartialTranscriptMarked ==
  [][\A tid \in DurableIds' \ DurableIds :
       IF pipeline = "rest"
       THEN RestRecord(tid) \in produced
       ELSE okChunks = 0..(TotalChunks(tid) - 1)]_vars

\* the transcripts of the batches the run that crashed last had completed
CrashCompleted ==
  IF pc = "idle" /\ status = "crashed" THEN completed ELSE prevCompleted

\* C3: a crash loses at most the in-flight batch.  After a crash, no
\* transcript of a batch completed before the crash is processed again by
\* the next run (unless that run is forced), and each keeps its records in
\* the output file.
C3_CrashLosesAtMostInflightBatch ==
  \A tid \in CrashCompleted :
    /\ args.force = FALSE => tid \notin fetched
    /\ \A r \in produced : r[1] = tid => r \in Range(sink)

\* C4: exactly-once persistence per chunk.  Whenever no process runs, the
\* output file holds exactly one record for each chunk of every transcript
\* of the durable checkpoint.
C4_ExactlyOncePerChunk ==
  pc = "idle" =>
    \A tid \in DurableIds : \A r \in RecordsOf(tid) : Count(sink, r) = 1

\* C5: checkpoint filtering.  In a run without --resume-from and --force the
\* list to process is the listing without the ids of the loaded checkpoint,
\* no transcript of the loaded checkpoint is fetched or written, and a loop
\* that runs to its end has fetched exactly the listed ids not in it.
C5_CheckpointFiltering ==
  (pc # "idle" /\ args.resume_from = None /\ args.force = FALSE) =>
    /\ transcript_ids = SelectSeq(listing, LAMBDA t : t \notin loaded)
    /\ fetched \cap loaded = {}
    /\ fetched \subseteq Range(listing)
    /\ \A r \in produced : r[1] \notin loaded
    /\ LoopCompleted => fetched = Range(listing) \ loaded

\* checkpoint {A, B}, listing [A, B, C]: only C has been processed
C5_OnlyCProcessed ==
  /\ LoopCompleted
  /\ args.resume_from = None /\ args.force = FALSE
  /\ loaded = {1, 2}
  /\ listing = <<1, 2, 3>>
  /\ fetched = {3}

\* C6: the durable checkpoint grows monotonically.  No step of any run
\* removes an id from what a load of the checkpoint returns.
C6_CheckpointMonotone ==
  [][DurableIds \subseteq DurableIds']_vars

\* C7: the checkpoint save is crash-atomic.  In the state the save is in
\* between its two file operations, where the process can crash, a load
\* returns either the complete previous set or the complete new set.
C7_SaveCrashAtomic ==
  [][(pc = "save_open" /\ pc' = "save_dump") =>
       (DurableIds' = DurableIds \/ DurableIds' = processed_ids)]_vars

C9_ResumeFromSuffix ==
  (pc # "idle" /\ args.resume_from \in Range(Filtered)) =>
    \E n \in 1..Len(Filtered) :
      /\ Filtered[n] = args.resume_from
      /\ transcript_ids = SubSeq(Filtered, n, Len(Filtered))
      /\ \A m \in 1..(n - 1) : Filtered[m] \notin fetched
      /\ \E x \in 0..Len(transcript_ids) :
           fetched = {transcript_ids[m] : m \in 1..x}
      /\ LoopCompleted => fetched = {Filtered[m] : m \in n..Len(Filtered)}

\* filtered list [C, D, E], resumeFrom = D: D and E processed, C skipped
C9_ResumedAtD ==
  /\ LoopCompleted
  /\ Filtered = <<1, 2, 3>>
  /\ args.resume_from = 2
  /\ transcript_ids = <<2, 3>>
  /\ fetched = {2, 3}

\* C10: a resume id that is not in the filtered list does not fail the run:
\* the warning is logged and the full filtered list is processed unchanged.
C10_ResumeIdAbsent ==
  (loadedFrom # "none" /\ args.resume_from # None
     /\ args.resume_from \notin Range(Filtered)) =>
    /\ warned
    /\ status # "failed"
    /\ pc # "idle"
    /\ transcript_ids = Filtered
    /\ LoopCompleted => fetched = Range(Filtered)

\* resume id 3 is not in the filtered list [1, 2]: warning, 1 and 2 processed
C10_AbsentThenAllProcessed ==
  /\ LoopCompleted
  /\ args.resume_from = 3
  /\ Filtered = <<1, 2>>
  /\ warned
  /\ fetched = {1, 2}

\* C11: an exception raised while one transcript is processed never aborts
\* the run.  Whenever the loop has been left without an interrupt, every
\* transcript of the list to process has been processed.
C11_ExceptionNeverAborts ==
  (pc \in {"finally", "dump", "close"} /\ status # "interrupted") =>
    fetched = Range(transcript_ids)

\* C12: an embedding that fails on every permitted attempt.  The call hands
\* the failure to its caller; the step in which that happens leaves the run
\* running and in its loop, at the next chunk or transcript; no record of
\* the failed chunk is built, buffered or written; and a loop that then runs
\* to its end has processed every transcript of its list.
C12_EmbeddingFailureSkips ==
  /\ [](/\ \A r \in embedFailed :
             /\ r \notin produced
             /\ r \notin Range(sink) \cup Range(outBuf)
             /\ r \notin Range(batch_results) \cup Range(results)
        /\ (embedFailed # {} /\ LoopCompleted) =>
             fetched = Range(transcript_ids))
  /\ [][embedFailed' \ embedFailed # {} =>
          /\ status' = status
          /\ pc' \in {"fetch", "save_open", "chunk", "mark"}
          /\ sink' = sink /\ outBuf' = outBuf
          /\ IF pipeline = "rest" THEN pos' = pos + 1 ELSE k' = k + 1]_vars

\* REST, list [1, 2]: the embedding of 1 failed on all its attempts, 2 was
\* exported after it and the loop ran to its end
C12_FailedThenNextExported ==
  /\ pipeline = "rest"
  /\ LoopCompleted
  /\ transcript_ids = <<1, 2>>
  /\ embedFailed = {RestRecord(1)}
  /\ produced = {RestRecord(2)}

\* C13: embedding retry.  When the service fails on its first two calls and
\* succeeds on the third, create_embedding returns the embedding; and
\* whatever the service does, one call of create_embedding makes at most
\* max_retries calls to it.
C13_RetryThenSucceed ==
  returned =>
    /\ (~svc[1] /\ ~svc[2] /\ svc[3]) => embedding.ok
    /\ embedding.calls <= max_retries

\* C14: exponential backoff.  The pauses of one create_embedding call start
\* at the base delay and each is twice the one before; there is exactly one
\* pause between two consecutive attempts and none after the last, every
\* attempt but the last has failed, and the attempts stop at the script's
\* bound, which a call that fails has used up.
C14_ExponentialBackoff ==
  returned =>
    LET p == embedding.pauses IN
      /\ Len(p) > 0 => p[1] = BaseDelay(pipeline)
      /\ \A n \in 1..(Len(p) - 1) : p[n + 1] = 2 * p[n]
      /\ Len(p) = embedding.calls - 1
      /\ \A n \in 1..(embedding.calls - 1) : ~svc[n]
      /\ embedding.calls \in 1..MaxAttempts(pipeline)
      /\ embedding.ok = svc[embedding.calls]
      /\ ~embedding.ok => embedding.calls = MaxAttempts(pipeline)

\* REST: the service failed three times; the pauses were 1 s and 2 s, and
\* no pause followed the third attempt
C14_PausesOneTwo ==
  /\ pipeline = "rest"
  /\ returned
  /\ ~embedding.ok
  /\ embedding.calls = 3
  /\ embedding.pauses = <<1, 2>>

\* C15: the embedding service is never called with an empty string.  The
\* text a create_embedding call has submitted is not empty, whatever text
\* it was given, the text of a chunk whose sentences have no text included.
C15_NeverEmptyInput ==
  returned => embedding.input # <<>>

\* C16: input truncation.  For a text that is not empty, the text submitted
\* has at most Ceiling characters: it is the text itself when that is not
\* longer than Ceiling, and its first Ceiling characters when it is.
C16_TruncatedToCeiling ==
  (returned /\ text # <<>>) =>
    /\ Len(embedding.input) <= Ceiling
    /\ Len(text) <= Ceiling => embedding.input = text
    /\ Len(text) > Ceiling => embedding.input = SubSeq(text, 1, Ceiling)

\* the sentences of the transcript handed to process_transcript
Sentences == Get(transcript, "sentences", <<>>)

\* the speaker of a sentence
SpeakerOf(s) == SpeakerName(Get(s, "speaker_id", 0))

\* the positions at which a speaker block begins: the first sentence and
\* every sentence whose speaker is not the one of the sentence before it
BlockStarts ==
  {n \in 1..Len(Sentences) :
     n = 1 \/ SpeakerOf(Sentences[n]) # SpeakerOf(Sentences[n - 1])}

\* the concatenation of the sentences of blocks 1..n
RECURSIVE Expand(_, _)
Expand(blocks, n) ==
  IF n = 0 THEN <<>> ELSE Expand(blocks, n - 1) \o blocks[n].sentences

\* C17: the chunks of a transcript.  The chunk_index values are 0, 1, ..,
\* total_chunks - 1 in order; total_chunks is the number of chunks and of
\* speaker blocks of the transcript; chunk i is made of block i, and the
\* sentences of the blocks, put one after another in block order, are the
\* transcript's sentences: none dropped, duplicated or moved.
C17_ChunksCoverTranscript ==
  returned =>
    /\ Len(chunk_list) = Cardinality(BlockStarts)
    /\ Len(chunk_list) = Len(speaker_blocks)
    /\ \A j \in 1..Len(chunk_list) :
         /\ chunk_list[j].metadata.chunk_index = j - 1
         /\ chunk_list[j].metadata.total_chunks = Len(chunk_list)
         /\ chunk_list[j].metadata.speaker = speaker_blocks[j].speaker
         /\ chunk_list[j].text = BlockText(speaker_blocks[j])
    /\ Expand(speaker_blocks, Len(speaker_blocks)) = Sentences

\* three sentences of speakers 0, 1, 0: three chunks, indexed 0, 1, 2
C17_ThreeBlocks ==
  /\ returned
  /\ Len(Sentences) = 3
  /\ BlockStarts = {1, 2, 3}
  /\ [j \in 1..3 |-> chunk_list[j].metadata.chunk_index] = <<0, 1, 2>>
  /\ Expand(speaker_blocks, 3) = Sentences

\* C18: adjacency.  No two consecutive chunks have the same speaker: every
\* sentence of a block has the block's speaker, and the speaker changes
\* from each block to the next.
C18_AdjacentSpeakersDiffer ==
  returned =>
    /\ \A j \in 1..(Len(chunk_list) - 1) :
         chunk_list[j].metadata.speaker # chunk_list[j + 1].metadata.speaker
    /\ \A j \in 1..Len(speaker_blocks) :
         /\ speaker_blocks[j].sentences # <<>>
         /\ \A n \in 1..Len(speaker_blocks[j].sentences) :
              SpeakerOf(speaker_blocks[j].sentences[n])
                = speaker_blocks[j].speaker

\* speakers 0, 0, 1: the first two sentences are one chunk, the third the
\* next
C18_RunThenChange ==
  /\ returned
  /\ Len(Sentences) = 3
  /\ BlockStarts = {1, 3}
  /\ Len(chunk_list) = 2
  /\ chunk_list[1].metadata.speaker = SpeakerName(0)
  /\ chunk_list[2].metadata.speaker = SpeakerName(1)

\* the chunks that have a chunk before them / after them
HasPrev(j) == j > 1
HasNext(j) == j < Len(chunk_list)

\* the positional context of the chunks but for the first prev_speaker and
\* the last next_speaker, and the text of each chunk
ContextOfInnerChunks ==
  \A j \in 1..Len(chunk_list) :
    /\ HasPrev(j) => chunk_list[j].metadata.prev_speaker
                       = chunk_list[j - 1].metadata.speaker
    /\ HasNext(j) => chunk_list[j].metadata.next_speaker
                       = chunk_list[j + 1].metadata.speaker
    /\ chunk_list[j].text = BlockText(speaker_blocks[j])

\* the sentences (0, hi), (0, there), (1, hey)
HiThereHey ==
  <<[speaker_id |-> 0, text |-> <<"h", "i">>],
    [speaker_id |-> 0, text |-> <<"t", "h", "e", "r", "e">>],
    [speaker_id |-> 1, text |-> <<"h", "e", "y">>]>>

\* C19 as claimed: positional context, with null as the prev_speaker of the
\* first chunk and as the next_speaker of the last.
C19_NullAtTheEnds ==
  returned =>
    /\ ContextOfInnerChunks
    /\ \A j \in 1..Len(chunk_list) :
         /\ ~HasPrev(j) => chunk_list[j].metadata.prev_speaker = Null
         /\ ~HasNext(j) => chunk_list[j].metadata.next_speaker = Null

\* C19: positional context.  prev_speaker of chunk i is the speaker of chunk
\* i - 1 and the string "None" for the first chunk; next_speaker is the
\* speaker of chunk i + 1 and the string "None" for the last chunk; the text
\* of a chunk is the texts of its block's sentences joined by single spaces.
\* The sentences (0, hi), (0, there), (1, hey) give chunk 0 of speaker 0
\* with text "hi there" and next_speaker 1, and chunk 1 of speaker 1 with
\* text "hey" and prev_speaker 0.
C19_PositionalContext ==
  returned =>
    /\ ContextOfInnerChunks
    /\ \A j \in 1..Len(chunk_list) :
         /\ ~HasPrev(j) => chunk_list[j].metadata.prev_speaker = NoneStr
         /\ ~HasNext(j) => chunk_list[j].metadata.next_speaker = NoneStr
    /\ Sentences = HiThereHey =>
         /\ Len(chunk_list) = 2
         /\ chunk_list[1].metadata.speaker = SpeakerName(0)
         /\ chunk_list[1].text
              = <<"h", "i", " ", "t", "h", "e", "r", "e">>
         /\ chunk_list[1].metadata.next_speaker = SpeakerName(1)
         /\ chunk_list[2].metadata.speaker = SpeakerName(1)
         /\ chunk_list[2].text = <<"h", "e", "y">>
         /\ chunk_list[2].metadata.prev_speaker = SpeakerName(0)

\* the chunks of (0, hi), (0, there), (1, hey): "None" before the first and
\* after the last
C19_HiThereHeyChunked ==
  /\ returned
  /\ Sentences = HiThereHey
  /\ chunk_list[1].text = <<"h", "i", " ", "t", "h", "e", "r", "e">>
  /\ chunk_list[1].metadata.prev_speaker = NoneStr
  /\ chunk_list[1].metadata.next_speaker = SpeakerName(1)
  /\ chunk_list[2].metadata.prev_speaker = SpeakerName(0)
  /\ chunk_list[2].metadata.next_speaker = NoneStr

\* C20: chunker edge cases.  A transcript with no sentences (an empty list,
\* or no list) gives no chunks, and process_transcript returns; a transcript
\* whose sentences all have one speaker gives exactly one chunk.
C20_EmptyAndSingleSpeaker ==
  returned =>
    /\ Sentences = <<>> => chunk_list = <<>>
    /\ (Sentences # <<>> /\ BlockStarts = {1}) =>
         /\ Len(chunk_list) = 1
         /\ chunk_list[1].metadata.chunk_index = 0
         /\ chunk_list[1].metadata.total_chunks = 1

\* three sentences of speaker 1 have become one chunk
C20_OneSpeakerOneChunk ==
  /\ returned
  /\ Len(Sentences) = 3
  /\ \A n \in 1..3 : SpeakerOf(Sentences[n]) = SpeakerName(1)
  /\ Len(chunk_list) = 1

\* C21: the vector id is an injective function of (transcript id, chunk
\* index).  The id built from a pair is the id the script's formula gives
\* for it, and no other pair of the script gives that id.
C21_VectorIdInjective ==
  returned =>
    /\ vector_id = VectorId(pipeline, id_args[1], id_args[2])
    /\ \A other \in IdArgs(pipeline) :
         VectorId(pipeline, other[1], other[2]) = vector_id
           => other = id_args

\* transcript "a", chunk 11: the id is "fireflies_a_11" (which transcript
\* "a1", chunk 1 would share if the "_" were missing)
C21_IdOfA11 ==
  /\ pipeline = "graphql"
  /\ returned
  /\ id_args = << <<"a">>, 11 >>
  /\ vector_id = VectorIdPrefix \o <<"a", "_", "1", "1">>

\* C22: a failed upsert of one record does not abort the batch.  The step in
\* which an upsert raises has appended that record to the output, leaves the
\* run running and goes on with the next chunk or with the marking of the
\* transcript; the record stays in the output; once the chunk loop of the
\* transcript is over its id is in the checkpoint; and a loop that runs to
\* its end has processed every transcript of its list.
C22_UpsertFailureKeepsGoing ==
  /\ [](\A r \in upsertFailed :
          /\ r \in Range(sink) \cup Range(outBuf)
          /\ (pc = "fetch" \/ LoopCompleted) =>
               /\ r[1] \in DurableIds
               /\ r[1] \in completed
          /\ LoopCompleted => fetched = Range(transcript_ids))
  /\ [][upsertFailed' \ upsertFailed # {} =>
          /\ upsertFailed' \ upsertFailed = {GqlRecord(transcript_ids[pos], k)}
          /\ Count(sink' \o outBuf', GqlRecord(transcript_ids[pos], k))
               = Count(sink \o outBuf, GqlRecord(transcript_ids[pos], k)) + 1
          /\ status' = status
          /\ pos' = pos
          /\ k' = k + 1
          /\ pc' = IF k' < chunks THEN "chunk" ELSE "mark"]_vars

\* list [2, 3] with --namespace: the upsert of chunk 0 of transcript 2
\* raised, chunk 1 of it was written after that, transcript 2 is in the
\* checkpoint and transcript 3 is next
C22_FailedUpsertThenNextTranscript ==
  /\ pipeline = "graphql"
  /\ args.namespace
  /\ transcript_ids = <<2, 3>>
  /\ pos = 2
  /\ pc = "fetch"
  /\ status = "running"
  /\ upsertFailed = {GqlRecord(2, 0)}
  /\ GqlRecord(2, 1) \in Range(sink) \cup Range(outBuf)
  /\ 2 \in DurableIds

\* C23: listing is complete.  When the listing function has returned and no
\* request of it failed, the caller has the ids of the whole result set, in
\* source order, whatever the batch size.
C23_ListingComplete ==
  (returned /\ response = "ok") =>
    listed = [outcome |-> "ids", ids |-> ResultSet(total)]

\* C24: a rate-limit response to a page request of the paged listing.  The
\* step that gets it sleeps the fixed 10 s, keeps the page number and the
\* collected entries, and does not return; while it is the last response the
\* next request is for that same page, none of whose entries are collected;
\* so it is with every rate-limit response, however many follow each other.
C24_RateLimitRetriesSamePage ==
  /\ []((pipeline = "rest" /\ response = "rate_limited") =>
          /\ ~returned
          /\ slept = RateLimitSleep
          /\ Len(all_transcripts) = (page - 1) * per_page)
  /\ [][(pipeline = "rest" /\ response' = "rate_limited") =>
          /\ page' = page
          /\ all_transcripts' = all_transcripts
          /\ listed' = listed]_vars

\* the request for page 2 of 101 transcripts was rate limited: the 100
\* entries of page 1 are collected and page 2 is requested again
C24_Page2RateLimited ==
  /\ pipeline = "rest"
  /\ total = per_page + 1
  /\ response = "rate_limited"
  /\ page = 2
  /\ all_transcripts = ResultSet(per_page)
  /\ slept = RateLimitSleep
  /\ ~returned

\* C25: a non-recoverable error while listing.  When the listing function
\* has returned after a request that failed, its caller has got an error,
\* not a list of ids.
C25_ListFailureIsAnError ==
  (returned /\ response \notin {"ok", "rate_limited"}) =>
    listed.outcome = "raise"

\* C26: a detail fetch that finds nothing is a skip.  The step in which it
\* happens leaves the run running, the output, its buffer and the checkpoint
\* as they were, and goes on with the next id; no record of that id is
\* ever collected or written in the run, the run does not add the id to the
\* checkpoint, and a loop that runs to its end has processed every id of
\* its list.
C26_NotFoundIsSkipped ==
  /\ [](\A tid \in notFound :
          /\ \A r \in RecordsOf(tid) :
               r \notin Range(sink) \cup Range(outBuf)
                          \cup Range(batch_results) \cup Range(results)
          /\ tid \in DurableIds => tid \in loaded
          /\ pipeline = "rest" => tid \notin processed_ids
          /\ tid \notin completed
          /\ LoopCompleted => fetched = Range(transcript_ids))
  /\ [][notFound' \ notFound # {} =>
          /\ notFound' \ notFound = {transcript_ids[pos]}
          /\ status' = status
          /\ durable' = durable
          /\ outBuf' = outBuf
          /\ batch_results' = batch_results
          /\ pos' = pos + 1
          /\ pc' \in {"fetch", "save_open", "close"}]_vars

\* list [1, 2]: no details were found for 1, 2 was exported after it and is
\* in the checkpoint, 1 is not
C26_SkippedThenNextExported ==
  /\ LoopCompleted
  /\ transcript_ids = <<1, 2>>
  /\ notFound = {1}
  /\ \A r \in RecordsOf(2) : r \in Range(sink) \cup Range(outBuf)
  /\ DurableIds = {2}

\* C27: an interrupt ends the run with all completed batches flushed.  When
\* the process has ended after an interrupt, every transcript completed
\* before it has its id in the durable checkpoint and every record produced
\* for it in the output file.
C27_InterruptFlushesCompleted ==
  (pc = "idle" /\ status = "interrupted") =>
    \A tid \in completed :
      /\ tid \in DurableIds
      /\ \A r \in produced : r[1] = tid => r \in Range(sink)

\* the records the run has written or buffered, and with --format json the
\* ones its finally clause is about to write
WrittenOrPending ==
  Range(sink) \cup Range(outBuf)
    \cup (IF pipeline = "rest" /\ args.format = "json" THEN Range(results)
          ELSE {})

\* C28: an interrupt is honoured between transcripts.  When a run in which
\* no embedding failed has been interrupted, every transcript of its list is
\* either complete (all its records written, its id in the checkpoint) or
\* has left no trace (no record written, its id not added to the
\* checkpoint).
C28_InterruptBetweenTranscripts ==
  (status = "interrupted" /\ pc \in {"finally", "close"}
     /\ embedFailed = {}) =>
    \A tid \in Range(transcript_ids) :
      LET recs == RecordsOf(tid) \cap WrittenOrPending IN
        \/ recs = RecordsOf(tid) /\ tid \in DurableIds
        \/ recs = {} /\ (tid \in DurableIds => tid \in loaded)

\* C29: records become visible only after the whole transcript was
\* embedded.  In every state, each record in the output file belongs to a
\* transcript all of whose chunks have been embedded successfully.
C29_VisibleOnlyWhenAllEmbedded ==
  \A r \in Range(sink) : RecordsOf(r[1]) \subseteq produced

\* s is a prefix of t
IsPrefix(s, t) == Len(s) <= Len(t) /\ SubSeq(t, 1, Len(s)) = s

\* C30: the output file is append-only.  Every step of every run leaves
\* the content the file had before it as a prefix of its content after it.
C30_SinkAppendOnly == [][IsPrefix(sink, sink')]_vars


\* C31: a missing required credential aborts the run before any work.
\* While a required key is absent the process has ended at the key check:
\* it has listed nothing, fetched no details, embedded nothing and buffered
\* nothing; and the step in which the run finds the key absent changes
\* neither the output file nor the checkpoint and builds no record.
C31_MissingKeyAbortsBeforeWork ==
  /\ [](missing_keys # {} =>
          /\ pc = "idle"
          /\ status = "config_missing"
          /\ listing = <<>>
          /\ transcript_ids = <<>>
          /\ fetched = {}
          /\ embedFailed = {}
          /\ outBuf = <<>>)
  /\ [][missing_keys' # {} =>
          /\ durable' = durable
          /\ produced' = produced]_vars

\* the GraphQL script started without the Pinecone key on a checkpoint
\* that holds transcript 1: the run is over and the checkpoint is as it was
C31_NoPineconeKey ==
  /\ pipeline = "graphql"
  /\ missing_keys = {"PINECONE_API_KEY"}
  /\ status = "config_missing"
  /\ runs = MaxRuns
  /\ DurableIds = {1}


\* the day an instant falls on
DayOf(d) == d \div DayMs

\* the positions of the entries whose date falls on a day of the range
\* given by the date options
InDateRange ==
  {j \in 1..Len(entries) :
     /\ "date" \in DOMAIN entries[j]
     /\ start_date # NoDate => start_date <= DayOf(entries[j].date)
     /\ end_date # NoDate => DayOf(entries[j].date) <= end_date}

\* C32: the date range is applied as a filter.  With a start and/or end
\* date given and a limit that cuts nothing, the ids returned are those of
\* the transcripts whose date lies within the range: none outside it is
\* returned and none within it is omitted.
C32_DateRangeFilter ==
  (returned /\ (start_date # NoDate \/ end_date # NoDate)
     /\ (limit = 0 \/ limit >= Len(entries))) =>
    Range(listed.ids) = InDateRange


\* the positions of the entries the millisecond bounds keep: all of them
\* when no bound is given, else those with a date d with
\* start-of-start-date <= d <= start-of-end-date, for the bounds given
InBounds ==
  IF start_date = NoDate /\ end_date = NoDate THEN 1..Len(entries)
  ELSE {j \in 1..Len(entries) :
          /\ "date" \in DOMAIN entries[j]
          /\ start_date # NoDate => start_date * DayMs <= entries[j].date
          /\ end_date # NoDate => entries[j].date <= end_date * DayMs}

\* C39: local date post-filtering.  The ids returned are in source order,
\* are ids of entries within the millisecond bounds (so none without a date
\* when a bound is given), and are the first `limit` of those entries, all
\* of them when the limit is 0 or not smaller than their number: the limit
\* is applied to the filtered list.
C39_DatePostFilter ==
  returned =>
    LET ids == listed.ids IN
      /\ \A a, b \in 1..Len(ids) : a < b => ids[a] < ids[b]
      /\ Range(ids) \subseteq InBounds
      /\ \A j \in InBounds, h \in Range(ids) : j < h => j \in Range(ids)
      /\ Len(ids) = IF limit # 0 /\ Cardinality(InBounds) > limit
                    THEN limit ELSE Cardinality(InBounds)

\* entries dated [day 1, day 2 + 1 ms] with --start-date day 1, --end-date
\* day 2 and no limit: the entry recorded on the end date after its first
\* millisecond is dropped, only the first is returned
C39_EndDayAndUndatedDropped ==
  /\ returned
  /\ entries = <<EntryOf(1, DayMs), EntryOf(2, 2 * DayMs + 1)>>
  /\ start_date = 1
  /\ end_date = 2
  /\ limit = 0
  /\ listed.ids = <<1>>

\* C33: a pause follows each external call.  In the order in which the run
\* makes its network calls and sleeps, no network call comes right after
\* another one.
C33_PauseBetweenCalls ==
  \A n \in 1..(Len(events) - 1) :
    ~(events[n] \in NetworkCalls /\ events[n + 1] \in NetworkCalls)

\* C34: every record written to the sink names in its metadata the
\* embedding model and the embedding dimensionality of the run.  The
\* metadata of a GraphQL record is the metadata of its chunk.
C34_MetadataNamesModelAndDimensions ==
  returned =>
    \A j \in 1..Len(chunk_list) :
      /\ "embedding_model" \in OutputMetadataKeys(chunk_list[j])
      /\ "embedding_dimensions" \in OutputMetadataKeys(chunk_list[j])

\* C35: eventual full export with the single-query backend.  A complete run
\* that finds nothing left to process changes nothing, and so does every run
\* after it: the repeated runs bring every source id into the checkpoint
\* only if at that point the checkpoint holds every id of the source.
C35_NothingLeftMeansAllExported ==
  (rounds > 0 /\ unprocessed = <<>>) =>
    \A t \in 1..total : t \in Range(processed_file)

\* C36: a transcript whose details were fetched and gave no chunk is in the
\* checkpoint a later run would load as soon as the loop has gone past it.
C36_EmptyTranscriptCheckpointed ==
  pipeline = "graphql" => \A tid \in noChunks : tid \in DurableIds

C38_ListingLoopTerminates ==
  /\ [][(pipeline = "rest" /\ response' \notin {"rate_limited", "malformed"})
          => /\ returned' <=> \/ response' # "ok"
                              \/ Len(all_transcripts') >= total
                              \/ PageOf(total, page) = <<>>
             /\ returned' => listed'.ids = all_transcripts'
             /\ response' # "ok" => all_transcripts' = all_transcripts]_vars
  /\ <>returned

\* page 1 collected, page 2 answered by 429 and then by another error: the
\* ids of page 1 are returned
C38_ErrorAfterRateLimit ==
  /\ pipeline = "rest"
  /\ returned
  /\ response = "http_error"
  /\ slept = RateLimitSleep
  /\ page = 2
  /\ listed.ids = PageOf(total, 1)
  /\ Len(listed.ids) < total

=============================================================================
